---- MODULE Spec2Model ----
(***************************************************************************)
(* Model of VSoCNRVH-3/sw/exploit/ref/ref_main.c: a bare-metal NEORV32     *)
(* program whose main() reads CSR_CYCLE, drops to user mode, reads         *)
(* CSR_CYCLE again, writes 0 to it and returns 0.                          *)
(*                                                                         *)
(* main() is modelled one statement per action (pc is the line number of   *)
(* the next statement).  Each action contains everything the statement     *)
(* does, including the library call it makes and, when the core rejects a  *)
(* CSR access, the trap taken and the return from it.                      *)
(*                                                                         *)
(* The NEORV32 library and the core are not part of ref_main.c.  Their     *)
(* behaviour is modelled from the description of the program (a CSR read,  *)
(* a privilege-mode switch, a CSR write) and the RISC-V privileged         *)
(* architecture; whether the core under test lets a user-mode access to    *)
(* CSR_CYCLE through is not known from the program and is left open.       *)
(***************************************************************************)
EXTENDS Integers, Sequences, FiniteSets, TLC

\* Bounds of the model.
MaxCycle == 2      \* the cycle counter at entry of main is in 0..MaxCycle
MaxTick == 2       \* a statement takes 1..MaxTick cycles

\* The CSRs named in ref_main.c (active code and commented-out lines).
CSR_CYCLE == "CSR_CYCLE"
CSR_MSTATUS == "CSR_MSTATUS"
CSR_MCOUNTEREN == "CSR_MCOUNTEREN"
CSR_MEPC == "CSR_MEPC"

VARIABLES
    pc,          \* line of the next statement of main: "L12".."L18", "done"
    a,           \* the local uint32_t a
    ret,         \* <<>> until main returns, then <<value>>
    priv,        \* current privilege mode: "M" or "U"
    cycle,       \* the cycle counter behind CSR_CYCLE
    mstatus,     \* [MIE, MPIE, MPP, TW] fields of mstatus
    mcounteren,  \* CY bit of mcounteren
    mepc,        \* exception return address (a line of main)
    ops,         \* the library calls main has made, in order
    csrlog,      \* every CSR instruction executed, in order
    traps        \* number of traps taken so far

vars == <<pc, a, ret, priv, cycle, mstatus, mcounteren, mepc, ops, csrlog, traps>>

\* ------------------------------------------------------------------ helpers

Lines == {"L12", "L14", "L15", "L16", "L18", "done"}

\* A library call made by main: its name, the CSR it names, its value operand.
Call(op, csr, val) == [op |-> op, csr |-> csr, val |-> val]

\* A CSR instruction: who issued it, in which mode, and what it does.
Access(by, kind, csr, val) ==
    [by |-> by, kind |-> kind, csr |-> csr, val |-> val, priv |-> priv]

\* What the register of a rejected csrr holds afterwards: anything.
Garbage == 0..MaxCycle

\* Cycles elapsed while a statement runs.
Ticks == 1..MaxTick

\* Privilege mode encoded by mstatus.MPP.
PrivOf(mpp) == IF mpp = 3 THEN "M" ELSE "U"

\* mstatus on trap entry from mode p.
TrapEntry(ms, p) ==
    [ms EXCEPT !.MPIE = ms.MIE, !.MIE = 0, !.MPP = IF p = "M" THEN 3 ELSE 0]

\* mstatus after mret.
Mret(ms) == [ms EXCEPT !.MIE = ms.MPIE, !.MPIE = 1, !.MPP = 0]

\* csrrc zero, mstatus, (MPP_H | MPP_L)
ClearMPP(ms) == [ms EXCEPT !.MPP = 0]

\* May a read of CSR_CYCLE be rejected (illegal instruction) in the current
\* state?  Machine mode may always read it; user mode may read it when
\* mcounteren.CY is set; otherwise the architecture rejects it, and a core
\* with a broken check lets it through.
CycleReadOutcomes ==
    IF priv = "M" \/ mcounteren = 1 THEN {TRUE} ELSE {TRUE, FALSE}

\* CSR_CYCLE is a read-only address: the architecture rejects the write, and
\* a core with a broken check lets it through.
CycleWriteOutcomes == {TRUE, FALSE}

\* An illegal-instruction trap at a statement whose successor is `next`:
\* trap entry, the start-up handler stepping over the instruction, mret.
TrapAndSkip(next) ==
    /\ mstatus' = Mret(TrapEntry(mstatus, priv))
    /\ priv' = PrivOf(TrapEntry(mstatus, priv).MPP)
    /\ mepc' = next
    /\ traps' = traps + 1
    /\ pc' = next

NoTrap(next) ==
    /\ pc' = next
    /\ UNCHANGED <<mstatus, priv, mepc, traps>>

\* neorv32_cpu_csr_read(CSR_CYCLE) followed by the assignment to a.
ReadCycleInto(next) ==
    /\ ops' = Append(ops, Call("neorv32_cpu_csr_read", CSR_CYCLE, <<>>))
    /\ csrlog' = Append(csrlog, Access("main", "read", CSR_CYCLE, <<>>))
    /\ \E ok \in CycleReadOutcomes, d \in Ticks :
          /\ cycle' = cycle + d
          /\ IF ok
             THEN a' = cycle /\ NoTrap(next)
             ELSE (\E g \in Garbage : a' = g) /\ TrapAndSkip(next)

\* neorv32_cpu_csr_write(CSR_CYCLE, v)
WriteCycle(v, next) ==
    /\ ops' = Append(ops, Call("neorv32_cpu_csr_write", CSR_CYCLE, <<v>>))
    /\ csrlog' = Append(csrlog, Access("main", "write", CSR_CYCLE, <<v>>))
    /\ \E ok \in CycleWriteOutcomes, d \in Ticks :
          IF ok
          THEN cycle' = v /\ NoTrap(next)
          ELSE cycle' = cycle + d /\ TrapAndSkip(next)

\* neorv32_cpu_goto_user_mode(): mepc := ra, clear mstatus.MPP, mret.
GotoUserMode(next) ==
    /\ ops' = Append(ops, Call("neorv32_cpu_goto_user_mode", "", <<>>))
    /\ csrlog' = csrlog \o << Access("helper", "write", CSR_MEPC, <<>>),
                              Access("helper", "clear", CSR_MSTATUS, <<>>) >>
    /\ mepc' = next
    /\ mstatus' = Mret(ClearMPP(mstatus))
    /\ priv' = PrivOf(ClearMPP(mstatus).MPP)
    /\ pc' = next
    /\ \E d \in Ticks : cycle' = cycle + d

\* ------------------------------------------------------------ initial state

\* Entry of main: machine mode, nothing done yet.
Init ==
    /\ pc = "L12"
    /\ a = 0
    /\ ret = <<>>
    /\ priv = "M"
    /\ cycle \in 0..MaxCycle
    /\ mstatus \in [MIE : {0, 1}, MPIE : {0, 1}, MPP : {0, 3}, TW : {0, 1}]
    /\ mcounteren \in {0, 1}
    /\ mepc = "L12"
    /\ ops = <<>>
    /\ csrlog = <<>>
    /\ traps = 0

\* ---------------------------------------------------- statements of main

\* Variant of line 12 with line 13 un-commented:
\*   neorv32_cpu_csr_write(CSR_MCOUNTEREN, 1);
Stmt12_EnableCounter ==
    /\ pc = "L12"
    /\ ops' = ops \o << Call("neorv32_cpu_csr_read", CSR_CYCLE, <<>>),
                        Call("neorv32_cpu_csr_write", CSR_MCOUNTEREN, <<1>>) >>
    /\ csrlog' = csrlog \o << Access("main", "read", CSR_CYCLE, <<>>),
                              Access("main", "write", CSR_MCOUNTEREN, <<1>>) >>
    /\ a' = cycle
    /\ mcounteren' = 1
    /\ pc' = "L14"
    /\ \E d \in Ticks : cycle' = cycle + d
    /\ UNCHANGED <<ret, priv, mstatus, mepc, traps>>

\* line 12: uint32_t a = (uint32_t)neorv32_cpu_csr_read(CSR_CYCLE);
Stmt12 ==
    /\ pc = "L12"
    /\ ReadCycleInto("L14")
    /\ UNCHANGED <<ret, mcounteren>>

\* Variant of line 14 commented out like its neighbours.
Stmt14_Skipped ==
    /\ pc = "L14"
    /\ pc' = "L15"
    /\ UNCHANGED <<a, ret, priv, cycle, mstatus, mcounteren, mepc, ops, csrlog, traps>>

\* Variant of line 14 with the call duplicated.
Stmt14_Twice ==
    /\ pc = "L14"
    /\ ops' = ops \o << Call("neorv32_cpu_goto_user_mode", "", <<>>),
                        Call("neorv32_cpu_goto_user_mode", "", <<>>) >>
    /\ csrlog' = csrlog \o << Access("helper", "write", CSR_MEPC, <<>>),
                              Access("helper", "clear", CSR_MSTATUS, <<>>) >>
    /\ mepc' = "L15"
    /\ mstatus' = Mret(ClearMPP(mstatus))
    /\ priv' = "U"
    /\ pc' = "L15"
    /\ \E d \in Ticks : cycle' = cycle + d
    /\ UNCHANGED <<a, ret, mcounteren, traps>>

\* line 14: neorv32_cpu_goto_user_mode();
Stmt14 ==
    /\ pc = "L14"
    /\ GotoUserMode("L15")
    /\ UNCHANGED <<a, ret, mcounteren, traps>>

\* Variant of line 15 with the second read left out.
Stmt15_Skipped ==
    /\ pc = "L15"
    /\ pc' = "L16"
    /\ UNCHANGED <<a, ret, priv, cycle, mstatus, mcounteren, mepc, ops, csrlog, traps>>

\* line 15: a = (uint32_t)neorv32_cpu_csr_read(CSR_CYCLE);
Stmt15 ==
    /\ pc = "L15"
    /\ ReadCycleInto("L16")
    /\ UNCHANGED <<ret, mcounteren>>

\* Variant of line 16 writing back the value just read:
\*   neorv32_cpu_csr_write(CSR_CYCLE, a);
Stmt16_WritesA ==
    /\ pc = "L16"
    /\ WriteCycle(a, "L18")
    /\ UNCHANGED <<a, ret, mcounteren>>

\* Variant of line 16 guarded by the value read:
\*   if (a <= MaxCycle + 1) neorv32_cpu_csr_write(CSR_CYCLE, 0);
Stmt16_Guarded ==
    /\ pc = "L16"
    /\ IF a <= MaxCycle + 1
       THEN WriteCycle(0, "L18")
       ELSE /\ pc' = "L18"
            /\ UNCHANGED <<priv, cycle, mstatus, mepc, ops, csrlog, traps>>
    /\ UNCHANGED <<a, ret, mcounteren>>

\* Variant of line 16 with line 17 un-commented: asm volatile ("wfi");
\* with no interrupt source enabled the core never wakes up.
Stmt16_Wfi ==
    /\ pc = "L16"
    /\ WriteCycle(0, "L17")
    /\ UNCHANGED <<a, ret, mcounteren>>

\* line 16: neorv32_cpu_csr_write(CSR_CYCLE, 0);
Stmt16 ==
    /\ pc = "L16"
    /\ WriteCycle(0, "L18")
    /\ UNCHANGED <<a, ret, mcounteren>>

\* line 18: return 0;
Stmt18 ==
    /\ pc = "L18"
    /\ pc' = "done"
    /\ ret' = <<0>>
    /\ UNCHANGED <<a, priv, cycle, mstatus, mcounteren, mepc, ops, csrlog, traps>>

Next == Stmt12 \/ Stmt14 \/ Stmt15 \/ Stmt16 \/ Stmt18

Spec == Init /\ [][Next]_vars

\* The core keeps executing instructions: a statement that can run does run.
LiveSpec == Spec /\ WF_vars(Next)

TypeOK ==
    /\ pc \in Lines
    /\ a \in Nat
    /\ ret \in {<<>>, <<0>>}
    /\ priv \in {"M", "U"}
    /\ cycle \in Nat
    /\ mstatus \in [MIE : {0, 1}, MPIE : {0, 1}, MPP : {0, 3}, TW : {0, 1}]
    /\ mcounteren \in {0, 1}
    /\ mepc \in Lines
    /\ traps \in Nat

\* ------------------------------------------------------------------ claims

\* The calls main makes, in program order.
MainOps ==
    << Call("neorv32_cpu_csr_read", CSR_CYCLE, <<>>),
       Call("neorv32_cpu_goto_user_mode", "", <<>>),
       Call("neorv32_cpu_csr_read", CSR_CYCLE, <<>>),
       Call("neorv32_cpu_csr_write", CSR_CYCLE, <<0>>) >>

\* The CSR instructions issued by main itself (not by the library helper).
MainAccesses == SelectSeq(csrlog, LAMBDA e : e.by = "main")

\* Number of entries of log s that satisfy Test.
Count(s, Test(_)) == Cardinality({i \in 1..Len(s) : Test(s[i])})

IsGoto(c) == c.op = "neorv32_cpu_goto_user_mode"
IsMstatus(e) == e.csr = CSR_MSTATUS
IsMainWrite(e) == e.by = "main" /\ e.kind # "read"

\* C1: main performs a read of CSR_CYCLE, the call
\* neorv32_cpu_goto_user_mode(), a second read of CSR_CYCLE and a write to
\* CSR_CYCLE, in this order, each exactly once and with nothing in between:
\* at every moment the calls made so far are an initial part of that list,
\* and on return they are the whole list.
C1_FourOpsInOrder ==
    /\ \E n \in 0..Len(MainOps) : ops = SubSeq(MainOps, 1, n)
    /\ pc \in {"L18", "done"} => ops = MainOps
    /\ pc = "L12" => ops = <<>>

C1_Witness == pc = "done" /\ Len(ops) = 4 /\ ops[2].op = "neorv32_cpu_goto_user_mode"

\* C2: every execution of main terminates: main reaches its return statement
\* after the write and returns 0, also when the second read and the write run
\* in user mode (and are rejected by the core).
C2_Terminates ==
    /\ <>(pc = "done" /\ ret = <<0>>)
    /\ (pc = "L18") ~> (pc = "done" /\ ret = <<0>>)

C2_Witness == pc = "done" /\ ret = <<0>> /\ priv = "U" /\ traps = 2

\* C3: both reads and the write of main target CSR_CYCLE, and the value
\* written is 0 whatever the two reads returned.
C3_SameRegisterWritesZero ==
    /\ \A i \in 1..Len(MainAccesses) : MainAccesses[i].csr = CSR_CYCLE
    /\ \A i \in 1..Len(MainAccesses) :
          MainAccesses[i].kind = "write" => MainAccesses[i].val = <<0>>
    /\ pc \in {"L18", "done"} =>
          /\ Len(MainAccesses) = 3
          /\ MainAccesses[1].kind = "read"
          /\ MainAccesses[2].kind = "read"
          /\ MainAccesses[3].kind = "write"

C3_Witness ==
    /\ pc = "done"
    /\ a # 0
    /\ Len(MainAccesses) = 3
    /\ MainAccesses[3].val = <<0>>

\* The calls made and the result, as a function of the position in main only.
OpsAt(l) ==
    CASE l = "L12" -> <<>>
      [] l = "L14" -> SubSeq(MainOps, 1, 1)
      [] l = "L15" -> SubSeq(MainOps, 1, 2)
      [] l = "L16" -> SubSeq(MainOps, 1, 3)
      [] OTHER -> MainOps

RetAt(l) == IF l = "done" THEN <<0>> ELSE <<>>

\* C4: main is one linear body: the sequence of calls it makes and its return
\* value are fixed by the position in main alone, so two executions that
\* start with different CSR_CYCLE values (or read different values) make the
\* same calls and return the same 0; no value read decides a branch.
C4_ValueIndependent ==
    /\ pc \in Lines
    /\ ops = OpsAt(pc)
    /\ ret = RetAt(pc)

C4_Witness == pc = "done" /\ a > MaxCycle + 1 /\ ops = MainOps /\ ret = <<0>>

\* C5: in every execution of main MSTATUS is accessed at least once (by the
\* user-mode transition helper) and neorv32_cpu_goto_user_mode is invoked
\* exactly once.
C5_MstatusAndHelperOnce ==
    /\ Count(ops, IsGoto) <= 1
    /\ pc \in {"L15", "L16", "L18", "done"} =>
          /\ Count(ops, IsGoto) = 1
          /\ Count(csrlog, IsMstatus) >= 1

C5_Witness ==
    /\ pc = "done"
    /\ Count(ops, IsGoto) = 1
    /\ \E i \in 1..Len(csrlog) : csrlog[i].csr = CSR_MSTATUS /\ csrlog[i].by = "helper"

\* C6: the first read of CSR_CYCLE runs in machine mode, the second read and
\* the write of 0 run in user mode, and once neorv32_cpu_goto_user_mode() has
\* been called no later step of main runs in machine mode.
C6_PrivilegeOrdering ==
    /\ Len(MainAccesses) >= 1 => MainAccesses[1].priv = "M"
    /\ \A i \in 2..Len(MainAccesses) : MainAccesses[i].priv = "U"
    /\ pc = "L12" => priv = "M"
    /\ pc \in {"L15", "L16", "L18", "done"} => priv = "U"
    /\ Count(ops, IsGoto) >= 1 => priv = "U"

C6_Witness ==
    /\ pc = "done"
    /\ traps >= 1
    /\ Len(MainAccesses) = 3
    /\ MainAccesses[1].priv = "M"
    /\ MainAccesses[3].priv = "U"

\* C7: main itself issues exactly one CSR write, to CSR_CYCLE; it never
\* writes or sets MSTATUS (CSR address 768) or MCOUNTEREN; MCOUNTEREN keeps
\* its value throughout, and MSTATUS changes only inside the helper call.
C7_OnlyCycleWritten ==
    /\ [](/\ Count(csrlog, IsMainWrite) <= 1
          /\ \A i \in 1..Len(csrlog) :
                IsMainWrite(csrlog[i]) => csrlog[i].csr = CSR_CYCLE
          /\ pc \in {"L18", "done"} => Count(csrlog, IsMainWrite) = 1)
    /\ [][/\ mcounteren' = mcounteren
          /\ mstatus' # mstatus => pc = "L14"]_vars

C7_Witness ==
    /\ pc = "done"
    /\ Count(csrlog, IsMainWrite) = 1
    /\ mcounteren = 0
    /\ traps = 2
====
